---- MODULE Spec2Model ----
(***************************************************************************)
(* The sankey series of src/js/modules/sankey.src.js as a state machine.   *)
(*                                                                         *)
(* State: the series options (data, nodes, nodePadding, ...), the chart    *)
(* (plot size, inverted), the node list this.nodes, the point list         *)
(* this.points, and the results of the last pass (nodeColumns,             *)
(* translationFactor, colDistance, node rectangles, link anchors).         *)
(*                                                                         *)
(* Numbers: JavaScript numbers are modelled as exact rationals n/d with    *)
(* the three IEEE specials encoded by d = 0 (1/0 Infinity, -1/0 -Infinity, *)
(* 0/0 NaN).  Floating point round-off is not modelled.                    *)
(***************************************************************************)
EXTENDS Integers, Sequences, FiniteSets, TLC

VARIABLES
    options,            \* series options: data, nodes, nodePadding, nodeWidth, borderWidth
    chart,              \* chart.plotSizeX, chart.plotSizeY, chart.inverted
    nodes,              \* this.nodes
    points,             \* this.points
    nodeColumns,        \* this.nodeColumns (sequence of sequences of node ids)
    translationFactor,  \* this.translationFactor
    colDistance,        \* this.colDistance
    status              \* "new" | "done" (translate returned) | "threw" (TypeError)

vars == <<options, chart, nodes, points, nodeColumns, translationFactor,
          colDistance, status>>

----------------------------------------------------------------------------
(* Bounds of the model *)

\* longest edge list (of unit weights and default options; lists with
\* weights, node options or invalid edges are one edge shorter)
MaxEdges == 3

IdOrder == <<"A", "B", "C", "D">>
Ids == {IdOrder[i] : i \in 1..Len(IdOrder)}
Weights == {1, 2}
Paddings == {0, 10, 30}
OverrideColumns == {0, 2}

----------------------------------------------------------------------------
(* Program constants *)

\* node.level = undefined; a node without a column has no `column` property
Undef == -1
DefaultBorderWidth == 0
DefaultNodeWidth == 20
DefaultNodePadding == 10
\* curveFactor: 0.33
DefaultCurveFactor == [n |-> 33, d |-> 100]
\* translateLink: var bend = 20
Bend == 20

----------------------------------------------------------------------------
(* JavaScript numbers *)

RECURSIVE Gcd(_, _)
Gcd(a, b) == IF b = 0 THEN a ELSE Gcd(b, a % b)

Abs(x) == IF x < 0 THEN -x ELSE x
Sign(x) == IF x < 0 THEN -1 ELSE IF x > 0 THEN 1 ELSE 0

\* the number n/d in lowest terms, d >= 0
Num(n, d) ==
    IF d = 0 THEN [n |-> Sign(n), d |-> 0]
    ELSE LET g == Gcd(Abs(n), Abs(d))
             s == Sign(d)
         IN [n |-> (s * n) \div g, d |-> (s * d) \div g]

I(k) == [n |-> k, d |-> 1]
Infinity == [n |-> 1, d |-> 0]
NaN == [n |-> 0, d |-> 0]
IsNaN(a) == a.n = 0 /\ a.d = 0

Add(a, b) ==
    IF a.d = 0 /\ b.d = 0
    THEN (IF a = b THEN a ELSE NaN)
    ELSE Num(a.n * b.d + b.n * a.d, a.d * b.d)
Neg(a) == [n |-> -a.n, d |-> a.d]
Sub(a, b) == Add(a, Neg(b))
Mul(a, b) == Num(a.n * b.n, a.d * b.d)
Div(a, b) == Mul(a, Num(b.d, b.n))

\* a < b and a > b as JavaScript evaluates them (false when either is NaN)
Less(a, b) ==
    /\ ~IsNaN(a)
    /\ ~IsNaN(b)
    /\ IF a.d = 0 /\ b.d = 0 THEN a.n < b.n ELSE a.n * b.d < b.n * a.d
Greater(a, b) == Less(b, a)
LessEq(a, b) == Less(a, b) \/ (~IsNaN(a) /\ a = b)

\* the slip of taking the larger ratio
MathMinMutant(a, b) == IF IsNaN(a) \/ IsNaN(b) THEN NaN ELSE IF Less(a, b) THEN b ELSE a

MathMin(a, b) == IF IsNaN(a) \/ IsNaN(b) THEN NaN ELSE IF Less(b, a) THEN b ELSE a
MathFloor(a) == IF a.d = 0 THEN a ELSE I(a.n \div a.d)
MathRound(a) == MathFloor(Add(a, Num(1, 2)))

----------------------------------------------------------------------------
(* Points and nodes *)

\* the slip of accepting every point
IsValidMutant(point) == TRUE

\* Point.isValid of the sankey point class
IsValid(point) == point.isNode \/ point.wtype = "number"

\* A link point as Point.init leaves it: the edge's options, no geometry yet.
NewPoint(edge) ==
    [isNode |-> FALSE, from |-> edge.from, to |-> edge.to,
     weight |-> edge.weight, wtype |-> edge.wtype, outgoing |-> edge.outgoing,
     linkHeight |-> NaN, linkBase |-> <<NaN, NaN, NaN, NaN>>,
     straight |-> FALSE, nodeW |-> NaN, curvy |-> NaN, d |-> <<>>, plotY |-> 0]

\* H.Series.prototype.generatePoints: this.points holds the series' valid
\* edges in data order; the point objects are kept while the data is the same.
BaseGeneratePoints(data, oldPoints) ==
    IF oldPoints # <<>>
    THEN oldPoints
    ELSE LET valid == SelectSeq(data, LAMBDA e : IsValid([isNode |-> FALSE, wtype |-> e.wtype]))
         IN [i \in 1..Len(valid) |-> NewPoint(valid[i])]

\* The node H.NodesMixin.createNode builds for an id: a point with isNode set,
\* the options given for that id in options.nodes applied to it (so that
\* node.column is the explicit column, when there is one), and empty link lists.
\* `ordered` is not a field of the program: it counts the assignments order()
\* makes to node.level in the current pass.
NewNode(id, nodeOptions) ==
    [isNode |-> TRUE, id |-> id, options |-> nodeOptions[id],
     linksFrom |-> <<>>, linksTo |-> <<>>,
     level |-> Undef, ordered |-> 0,
     column |-> nodeOptions[id].column, hangsFrom |-> "",
     sum |-> NaN, nodeX |-> NaN, nodeY |-> NaN,
     shapeArgs |-> [x |-> NaN, y |-> NaN, width |-> NaN, height |-> NaN],
     plotY |-> 0]

\* position of the node with this id in a node list, 0 when there is none
IndexOfNode(ns, id) ==
    IF \E i \in 1..Len(ns) : ns[i].id = id
    THEN CHOOSE i \in 1..Len(ns) : ns[i].id = id
    ELSE 0

\* H.NodesMixin.createNode: the node of that id in this.nodes, pushed when new
CreateNode(ns, id, nodeOptions) ==
    IF IndexOfNode(ns, id) # 0 THEN ns ELSE Append(ns, NewNode(id, nodeOptions))

\* generatePoints: reset links from previous run
ResetLinks(ns) ==
    [i \in 1..Len(ns) |->
        [ns[i] EXCEPT !.linksFrom = <<>>, !.linksTo = <<>>, !.level = Undef,
                      !.ordered = 0]]

\* generatePoints: one turn of this.points.forEach for the point at index i
LinkPoint(ns, ps, i, nodeOptions) ==
    LET ns1 == CreateNode(ns, ps[i].from, nodeOptions)
        f == IndexOfNode(ns1, ps[i].from)
        ns2 == [ns1 EXCEPT ![f].linksFrom = Append(@, i)]
        ns3 == CreateNode(ns2, ps[i].to, nodeOptions)
        t == IndexOfNode(ns3, ps[i].to)
    IN [ns3 EXCEPT ![t].linksTo = Append(@, i)]

RECURSIVE SetUpLinks(_, _, _, _)
SetUpLinks(ns, ps, i, nodeOptions) ==
    IF i > Len(ps) THEN ns
    ELSE SetUpLinks(LinkPoint(ns, ps, i, nodeOptions), ps, i + 1, nodeOptions)

\* generatePoints: order(node, level), with the forEach over node.linksFrom
RECURSIVE Order(_, _, _, _)
RECURSIVE OrderLinks(_, _, _, _, _)
\* the slip of setting the level again on every visit
OrderMutant(ns, ps, id, level) ==
    LET k == IndexOfNode(ns, id)
    IN IF ns[k].level = Undef
       THEN OrderLinks([ns EXCEPT ![k].level = level, ![k].ordered = @ + 1],
                       ps, ns[k].linksFrom, 1, level + 1)
       ELSE [ns EXCEPT ![k].level = level, ![k].ordered = @ + 1]

Order(ns, ps, id, level) ==
    LET k == IndexOfNode(ns, id)
    IN IF ns[k].level = Undef
       THEN OrderLinks([ns EXCEPT ![k].level = level, ![k].ordered = @ + 1],
                       ps, ns[k].linksFrom, 1, level + 1)
       ELSE ns
OrderLinks(ns, ps, links, j, level) ==
    IF j > Len(links) THEN ns
    ELSE OrderLinks(Order(ns, ps, ps[links[j]].to, level), ps, links, j + 1, level)

\* generatePoints: the root nodes, in this.nodes order
RootIds(ns) ==
    LET roots == SelectSeq(ns, LAMBDA n : Len(n.linksTo) = 0)
    IN [i \in 1..Len(roots) |-> roots[i].id]

RECURSIVE OrderRoots(_, _, _, _)
OrderRoots(ns, ps, roots, j) ==
    IF j > Len(roots) THEN ns
    ELSE OrderRoots(Order(ns, ps, roots[j], 0), ps, roots, j + 1)

\* the nodes of levels l, l + 1, ... in ascending level, list order kept
\* within a level
RECURSIVE FromLevel(_, _)
FromLevel(ns, l) ==
    IF l > Len(ns) THEN <<>>
    ELSE SelectSeq(ns, LAMBDA n : n.level = l) \o FromLevel(ns, l + 1)

Orders(n) == {p \in [1..n -> 1..n] : \A i, j \in 1..n : p[i] = p[j] => i = j}

\* H.stableSort(this.nodes, a.level - b.level): the possible resulting orders.
\* The comparator yields NaN when a level is undefined, which Array.sort
\* takes as "equal": with every level undefined the order is kept; with
\* some levels undefined the comparator is inconsistent and the order is
\* whatever the engine's algorithm produces.
StableSortOutcomes(ns) ==
    IF \A i \in 1..Len(ns) : ns[i].level # Undef THEN {FromLevel(ns, 0)}
    ELSE IF \A i \in 1..Len(ns) : ns[i].level = Undef THEN {ns}
    ELSE {[i \in 1..Len(ns) |-> ns[p[i]]] : p \in Orders(Len(ns))}

\* generatePoints up to the sort: [nodes, points]
GeneratePoints(oldNodes, oldPoints, opts) ==
    LET ps == BaseGeneratePoints(opts.data, oldPoints)
        linked == SetUpLinks(ResetLinks(oldNodes), ps, 1, opts.nodes)
    IN [nodes |-> OrderRoots(linked, ps, RootIds(linked), 1), points |-> ps]

----------------------------------------------------------------------------
(* createNodeColumns *)

\* Array.prototype.findIndex over fromNode.linksFrom: the 0-based position of
\* the first link whose toNode is the node of this id
RECURSIVE FindIndexOfLinkTo(_, _, _, _)
FindIndexOfLinkTo(links, ps, id, j) ==
    IF j > Len(links) THEN -1
    ELSE IF ps[links[j]].to = id THEN j - 1
    ELSE FindIndexOfLinkTo(links, ps, id, j + 1)

\* the link the i-th turn of the loop over node.linksTo looks at (0-based i):
\* the code reads node.linksTo[0] on every turn
LinkExamined(linksTo, i) == linksTo[1]

\* the for loop over node.linksTo: [fromNode, fromColumn] after turns i, i+1, ...
\* (fromNode "" is the undefined variable)
RECURSIVE ScanLinksTo(_, _, _, _, _)
ScanLinksTo(ns, ps, linksTo, i, acc) ==
    IF i >= Len(linksTo) THEN acc
    ELSE LET point == ps[LinkExamined(linksTo, i)]
             src == ns[IndexOfNode(ns, point.from)]
         IN IF src.column # Undef /\ src.column > acc.fromColumn
            THEN ScanLinksTo(ns, ps, linksTo, i + 1,
                             [fromNode |-> src.id, fromColumn |-> src.column])
            ELSE ScanLinksTo(ns, ps, linksTo, i + 1, acc)

\* the slip of pushing to the last column instead of column c
PushToColumnMutant(columns, c, id) ==
    LET grown == [i \in 1..(IF c + 1 > Len(columns) THEN c + 1 ELSE Len(columns)) |->
                    IF i <= Len(columns) THEN columns[i] ELSE <<>>]
    IN [grown EXCEPT ![Len(grown)] = Append(@, id)]

\* columns[c].push(id), the array grown with empty columns up to index c
PushToColumn(columns, c, id) ==
    LET grown == [i \in 1..(IF c + 1 > Len(columns) THEN c + 1 ELSE Len(columns)) |->
                    IF i <= Len(columns) THEN columns[i] ELSE <<>>]
    IN [grown EXCEPT ![c + 1] = Append(@, id)]

\* the slip of counting the leftmost column as 1
RootColumnMutant == 0 + 1

\* "No links to this node, place it left"
RootColumn == 0

\* one turn of this.nodes.forEach in createNodeColumns, for the node at k.
\* st is [nodes, columns, threw]; threw is the TypeError of reading
\* fromNode.options when no link gave a fromNode.
PlaceNode(st, ps, k) ==
    LET ns == st.nodes
        node == ns[k]
    IN IF node.options.column # Undef
       THEN [st EXCEPT !.columns = PushToColumn(@, node.column, node.id)]
       ELSE IF Len(node.linksTo) = 0
       THEN [st EXCEPT !.nodes[k].column = RootColumn,
                       !.columns = PushToColumn(@, RootColumn, node.id)]
       ELSE LET scan == ScanLinksTo(ns, ps, node.linksTo, 0,
                                    [fromNode |-> "", fromColumn |-> -1])
                col == scan.fromColumn + 1
            IN IF scan.fromNode = ""
               THEN [st EXCEPT !.nodes[k].column = col, !.threw = TRUE]
               ELSE LET from == ns[IndexOfNode(ns, scan.fromNode)]
                    IN IF from.options.layout = "hanging"
                       THEN LET hung == col + FindIndexOfLinkTo(from.linksFrom, ps, node.id, 1)
                            IN [st EXCEPT !.nodes[k].column = hung,
                                          !.nodes[k].hangsFrom = from.id,
                                          !.columns = PushToColumn(@, hung, node.id)]
                       ELSE [st EXCEPT !.nodes[k].column = col,
                                       !.columns = PushToColumn(@, col, node.id)]

RECURSIVE PlaceNodes(_, _, _)
PlaceNodes(st, ps, k) ==
    IF k > Len(st.nodes) \/ st.threw THEN st
    ELSE PlaceNodes(PlaceNode(st, ps, k), ps, k + 1)

\* createNodeColumns on the sorted node list: [nodes, columns, threw]
CreateNodeColumns(ns, ps) ==
    PlaceNodes([nodes |-> ns, columns |-> <<>>, threw |-> FALSE], ps, 1)

----------------------------------------------------------------------------
(* Node columns: sum, offset, top *)

RECURSIVE SumOfWeights(_, _, _)
SumOfWeights(links, ps, j) ==
    IF j > Len(links) THEN 0
    ELSE ps[links[j]].weight + SumOfWeights(links, ps, j + 1)

\* node.getSum(): the total weight of the links used for sizing, the
\* outgoing links if there are any, else the incoming links
GetSum(node, ps) ==
    IF Len(node.linksFrom) > 0
    THEN SumOfWeights(node.linksFrom, ps, 1)
    ELSE SumOfWeights(node.linksTo, ps, 1)

\* node.offset(point, coll): the total weight of the links stored before the
\* point (index pi) in the list node[coll]
RECURSIVE NodeOffset(_, _, _, _)
NodeOffset(links, ps, pi, j) ==
    IF j > Len(links) \/ links[j] = pi THEN 0
    ELSE ps[links[j]].weight + NodeOffset(links, ps, pi, j + 1)

\* H.relativeLength(value, base): a percentage string is that share of the
\* base, a number is itself
RelativeLength(value, base) ==
    IF value.percent THEN Div(Mul(base, I(value.value)), I(100)) ELSE I(value.value)

NodeOf(ns, id) == ns[IndexOfNode(ns, id)]

\* column.sum()
RECURSIVE ColumnSum(_, _, _, _)
ColumnSum(column, ns, ps, i) ==
    IF i > Len(column) THEN 0
    ELSE GetSum(NodeOf(ns, column[i]), ps) + ColumnSum(column, ns, ps, i + 1)

\* column.offset(node, factor).relativeTop, the loop from index i with the
\* running offset
RECURSIVE ColumnOffset(_, _, _, _, _, _, _, _)
ColumnOffset(column, ns, ps, id, factor, nodePadding, i, offset) ==
    IF i > Len(column) THEN NaN
    ELSE LET totalNodeOffset ==
                 Add(Mul(I(GetSum(NodeOf(ns, column[i]), ps)), factor), I(nodePadding))
         IN IF column[i] = id
            THEN Add(offset, RelativeLength(NodeOf(ns, id).options.offset, totalNodeOffset))
            ELSE ColumnOffset(column, ns, ps, id, factor, nodePadding, i + 1,
                              Add(offset, totalNodeOffset))

\* the reduce of column.top: the height after the nodes i, i + 1, ...
RECURSIVE ColumnHeight(_, _, _, _, _, _, _)
ColumnHeight(column, ns, ps, factor, nodePadding, i, height) ==
    IF i > Len(column) THEN height
    ELSE LET padded == IF Greater(height, I(0)) THEN Add(height, I(nodePadding)) ELSE height
         IN ColumnHeight(column, ns, ps, factor, nodePadding, i + 1,
                         Add(padded, Mul(I(GetSum(NodeOf(ns, column[i]), ps)), factor)))

\* column.top(factor)
ColumnTop(column, ns, ps, factor, nodePadding, plotSizeY) ==
    Div(Sub(I(plotSizeY), ColumnHeight(column, ns, ps, factor, nodePadding, 1, I(0))), I(2))

----------------------------------------------------------------------------
(* translate *)

\* the slip of leaving the padding out of the room of a column
ColumnRatioMutant(column, ns, ps, opts, ch) ==
    Div(I(ch.plotSizeY - opts.borderWidth), I(ColumnSum(column, ns, ps, 1)))

\* the room of one column per unit of weight: height / column.sum()
ColumnRatio(column, ns, ps, opts, ch) ==
    LET height == ch.plotSizeY - opts.borderWidth - (Len(column) - 1) * opts.nodePadding
    IN Div(I(height), I(ColumnSum(column, ns, ps, 1)))

\* nodeColumns.reduce(Math.min(translationFactor, height / column.sum()), Infinity)
RECURSIVE TranslationFactor(_, _, _, _, _, _, _)
TranslationFactor(columns, ns, ps, opts, ch, i, factor) ==
    IF i > Len(columns) THEN factor
    ELSE TranslationFactor(columns, ns, ps, opts, ch, i + 1,
                           MathMin(factor, ColumnRatio(columns[i], ns, ps, opts, ch)))

ColDistance(columns, opts, ch) ==
    Div(I(ch.plotSizeX - opts.nodeWidth - opts.borderWidth), I(Len(columns) - 1))

\* translateNode(node, column): the node with its sum and rectangle
TranslateNode(node, column, ns, ps, opts, ch, factor, distance) ==
    LET sum == GetSum(node, ps)
        height == MathRound(Mul(I(sum), factor))
        crisp == Num(opts.borderWidth % 2, 2)
        relativeTop == ColumnOffset(column, ns, ps, node.id, factor, opts.nodePadding, 1, I(0))
        fromNodeTop ==
            Add(MathFloor(Add(ColumnTop(column, ns, ps, factor, opts.nodePadding, ch.plotSizeY),
                              relativeTop)),
                crisp)
        left == Add(MathFloor(Add(Mul(distance, I(node.column)), Num(opts.borderWidth, 2))),
                    crisp)
        nodeLeft == IF ch.inverted THEN Sub(I(ch.plotSizeX), left) ELSE left
        nodeWidth == I(opts.nodeWidth)
    IN [node EXCEPT
          !.sum = I(sum),
          !.nodeX = nodeLeft,
          !.nodeY = fromNodeTop,
          !.shapeArgs =
              IF ~ch.inverted
              THEN [x |-> nodeLeft, y |-> fromNodeTop, width |-> nodeWidth, height |-> height]
              ELSE [x |-> Sub(nodeLeft, nodeWidth),
                    y |-> Sub(Sub(I(ch.plotSizeY), fromNodeTop), height),
                    width |-> nodeWidth, height |-> height],
          !.plotY = 1]

\* the nodes after nodeColumns.forEach(column.forEach(translateNode))
TranslateNodes(ns, columns, ps, opts, ch, factor, distance) ==
    [k \in 1..Len(ns) |->
        IF ns[k].column # Undef /\ ns[k].column + 1 <= Len(columns)
        THEN TranslateNode(ns[k], columns[ns[k].column + 1], ns, ps, opts, ch, factor, distance)
        ELSE ns[k]]

\* the slip of rounding the link height to whole pixels
LinkHeightMutant(weight, factor) == MathRound(Mul(I(weight), factor))

\* translateLink: linkHeight = point.weight * translationFactor
LinkHeight(weight, factor) == Mul(I(weight), factor)

\* the slip of measuring the offset in the incoming list
FromLinkTopMutant(fromNode, ps, pi, factor) ==
    Mul(I(NodeOffset(fromNode.linksTo, ps, pi, 1)), factor)

\* translateLink: fromLinkTop = fromNode.offset(point, 'linksFrom') * translationFactor
FromLinkTop(fromNode, ps, pi, factor) ==
    Mul(I(NodeOffset(fromNode.linksFrom, ps, pi, 1)), factor)

\* translateLink: the numbers of the path of a link going from left to right
\* (M, C, L, L, C with their letters left out)
ForwardPath(nodeLeft, nodeW, curvy, fromY, toY, right, linkHeight, outgoing) ==
    LET start == Add(nodeLeft, nodeW)
        low == Add(fromY, linkHeight)
    IN <<start, fromY,
         Add(start, curvy), fromY, Sub(right, curvy), toY, right, toY,
         Add(right, IF outgoing THEN nodeW ELSE I(0)), Add(toY, Div(linkHeight, I(2))),
         right, Add(toY, linkHeight),
         Sub(right, curvy), Add(toY, linkHeight), Add(start, curvy), low, start, low>>

\* translateLink: the numbers of the path of a circular link pointing
\* backwards (M, C, L, C, L, C, L, C, L, C, L, C, L, C, L, C)
BackwardPath(nodeLeft, nodeW, fromY, toY, right, linkHeight, plotHeight) ==
    LET bend == I(Bend)
        part == Mul(linkHeight, Num(7, 10))
        vDist == Sub(Sub(plotHeight, fromY), linkHeight)
        x1 == Sub(Sub(right, bend), linkHeight)
        x2 == Sub(right, bend)
        x3 == right
        x4 == Add(nodeLeft, nodeW)
        x5 == Add(x4, bend)
        x6 == Add(x5, linkHeight)
        fy1 == fromY
        fy2 == Add(fromY, linkHeight)
        fy3 == Add(fy2, bend)
        y4 == Add(fy3, vDist)
        y5 == Add(y4, bend)
        y6 == Add(y5, linkHeight)
        ty1 == toY
        ty2 == Add(ty1, linkHeight)
        ty3 == Add(ty2, bend)
        cfy1 == Sub(fy2, part)
        cy2 == Add(y5, part)
        cty1 == Sub(ty2, part)
        cx1 == Sub(x3, part)
        cx2 == Add(x4, part)
    IN <<x4, fy1,
         cx2, fy1, x6, cfy1, x6, fy3,
         x6, y4,
         x6, cy2, cx2, y6, x4, y6,
         x3, y6,
         cx1, y6, x1, cy2, x1, y4,
         x1, ty3,
         x1, cty1, cx1, ty1, x3, ty1,
         x3, ty2,
         x2, ty2, x2, ty2, x2, ty3,
         x2, y4,
         x2, y5, x2, y5, x3, y5,
         x4, y5,
         x5, y5, x5, y5, x5, y4,
         x5, fy3,
         x5, fy2, x5, fy2, x4, fy2>>

\* translateLink(point) for the point at index pi, the nodes translated
TranslateLink(pi, ns, columns, ps, opts, ch, factor, distance) ==
    LET point == ps[pi]
        fromNode == NodeOf(ns, point.from)
        toNode == NodeOf(ns, point.to)
        toColumn == columns[toNode.column + 1]
        height0 == LinkHeight(point.weight, factor)
        fromLinkTop == FromLinkTop(fromNode, ps, pi, factor)
        fromY0 == Add(fromNode.nodeY, fromLinkTop)
        nodeLeft == fromNode.nodeX
        toColTop == ColumnTop(toColumn, ns, ps, factor, opts.nodePadding, ch.plotSizeY)
        toY0 == Add(Add(toColTop, Mul(I(NodeOffset(toNode.linksTo, ps, pi, 1)), factor)),
                    ColumnOffset(toColumn, ns, ps, toNode.id, factor, opts.nodePadding, 1, I(0)))
        right0 == Mul(I(toNode.column), distance)
        fromY == IF ch.inverted THEN Sub(I(ch.plotSizeY), fromY0) ELSE fromY0
        toY == IF ch.inverted THEN Sub(I(ch.plotSizeY), toY0) ELSE toY0
        right == IF ch.inverted THEN Sub(I(ch.plotSizeX), right0) ELSE right0
        linkHeight == IF ch.inverted THEN Neg(height0) ELSE height0
        straight == IF ch.inverted THEN Greater(nodeLeft, right) ELSE Greater(right0, nodeLeft)
        curvy == Mul(IF ch.inverted THEN Neg(distance) ELSE distance, opts.curveFactor)
        nodeW == IF ch.inverted THEN I(-opts.nodeWidth) ELSE I(opts.nodeWidth)
    IN [point EXCEPT
          !.linkHeight = linkHeight,
          !.linkBase = <<fromY, Add(fromY, linkHeight), toY, Add(toY, linkHeight)>>,
          !.straight = straight,
          !.nodeW = nodeW,
          !.curvy = curvy,
          !.d = IF straight
                THEN ForwardPath(nodeLeft, nodeW, curvy, fromY, toY, right, linkHeight,
                                 point.outgoing)
                ELSE BackwardPath(nodeLeft, nodeW, fromY, toY, right, linkHeight,
                                  I(ch.plotHeight)),
          !.plotY = 1]

\* One call of translate() on the node list ns and point list ps: the
\* possible outcomes [nodes, points, columns, factor, distance, threw].
\* generatePoints, createNodeColumns, the scale, then translateNode for every
\* node and translateLink for every link.  A TypeError raised inside
\* createNodeColumns (threw) leaves what was assigned before it and ends the
\* call before this.nodeColumns is assigned.
Pass(ns, ps, opts, ch) ==
    LET gp == GeneratePoints(ns, ps, opts)
    IN {LET cnc == CreateNodeColumns(sorted, gp.points)
        IN IF cnc.threw
           THEN [nodes |-> cnc.nodes, points |-> gp.points, columns |-> <<>>,
                 factor |-> NaN, distance |-> NaN, threw |-> TRUE]
           ELSE LET factor == TranslationFactor(cnc.columns, cnc.nodes, gp.points,
                                                opts, ch, 1, Infinity)
                    distance == ColDistance(cnc.columns, opts, ch)
                    placed == TranslateNodes(cnc.nodes, cnc.columns, gp.points,
                                             opts, ch, factor, distance)
                IN [nodes |-> placed,
                    points |-> [pi \in 1..Len(gp.points) |->
                                   TranslateLink(pi, placed, cnc.columns, gp.points,
                                                 opts, ch, factor, distance)],
                    columns |-> cnc.columns, factor |-> factor,
                    distance |-> distance, threw |-> FALSE]
        : sorted \in StableSortOutcomes(gp.nodes)}

\* the state after a call with outcome r
Becomes(r) ==
    /\ nodes' = r.nodes
    /\ points' = r.points
    /\ IF r.threw
       THEN /\ status' = "threw"
            /\ UNCHANGED <<nodeColumns, translationFactor, colDistance>>
       ELSE /\ status' = "done"
            /\ nodeColumns' = r.columns
            /\ translationFactor' = r.factor
            /\ colDistance' = r.distance

\* translate(): not called again once a call has thrown
Translate ==
    /\ status # "threw"
    /\ \E r \in Pass(nodes, points, options, chart) : Becomes(r)
    /\ UNCHANGED <<options, chart>>

----------------------------------------------------------------------------
(* setData *)

\* the slip of keeping the nodes of the old data
DestroyNodesMutant(ns) == ns

\* setData: every node destroyed, this.nodes.length = 0
DestroyNodes(ns) == <<>>

\* H.Series.prototype.setData: the options after the data is replaced (the
\* points of the old data are destroyed with it)
BaseSetData(opts, data) == [opts EXCEPT !.data = data]

\* the edge lists given to setData: one edge D->A, which mentions an id that
\* few of the old lists mention and leaves out ids that most of them mention
ReplacementData ==
    {<<[from |-> "D", to |-> "A", weight |-> 1, wtype |-> "number", outgoing |-> FALSE]>>}

\* setData(data) with its default redraw: the nodes are destroyed, the data
\* and the points replaced, and the redraw of the chart translates the series
SetData ==
    \E data \in ReplacementData :
        LET opts == BaseSetData(options, data)
        IN /\ options' = opts
           /\ \E r \in Pass(DestroyNodes(nodes), <<>>, opts, chart) : Becomes(r)
           /\ UNCHANGED chart

----------------------------------------------------------------------------
(* Initial states: a series constructed from its options, not yet translated *)

SeqsUpTo(S, n) == UNION {[1..k -> S] : k \in 0..n}

Edges(ws) ==
    {[from |-> f, to |-> t, weight |-> w, wtype |-> "number", outgoing |-> FALSE] :
        f \in Ids, t \in Ids, w \in ws}

\* an edge whose weight is not a number (its weight is never read as one)
InvalidEdges ==
    {[from |-> f, to |-> t, weight |-> 0, wtype |-> "undefined", outgoing |-> FALSE] :
        f \in Ids, t \in Ids}

\* Node ids are only names: an edge list is taken up to renaming, its ids
\* named A, B, C, D in the order in which the list first mentions them.
IdRank(id) == CHOOSE r \in 1..Len(IdOrder) : IdOrder[r] = id
Mentions(data) == [p \in 1..(2 * Len(data)) |->
                      IF p % 2 = 1 THEN data[(p + 1) \div 2].from ELSE data[p \div 2].to]
FirstSeenOrder(data) ==
    LET m == Mentions(data)
    IN \A p \in 1..Len(m) : \A r \in 1..(IdRank(m[p]) - 1) :
          \E q \in 1..(p - 1) : IdRank(m[q]) = r
EdgeLists(S, n) == {data \in SeqsUpTo(S, n) : FirstSeenOrder(data)}

\* node.options.offset || 0, and the offsets given to a node: 20 and "50%"
NoOffset == [percent |-> FALSE, value |-> 0]
Offsets == {[percent |-> FALSE, value |-> 20], [percent |-> TRUE, value |-> 50]}

NoNodeOptions == [id \in Ids |-> [column |-> Undef, layout |-> "normal", offset |-> NoOffset]]

\* options.nodes with exactly one node given a column, the hanging layout or
\* an offset
OneNodeOption ==
    {[NoNodeOptions EXCEPT ![id].column = c] : id \in Ids, c \in OverrideColumns}
    \cup {[NoNodeOptions EXCEPT ![id].layout = "hanging"] : id \in Ids}
    \cup {[NoNodeOptions EXCEPT ![id].offset = o] : id \in Ids, o \in Offsets}

Fresh ==
    /\ nodes = <<>>
    /\ points = <<>>
    /\ nodeColumns = <<>>
    /\ translationFactor = NaN
    /\ colDistance = NaN
    /\ status = "new"

\* a chart that is not inverted: plotSizeY is its plotHeight
DefaultChart == [plotSizeX |-> 100, plotSizeY |-> 25, plotHeight |-> 25, inverted |-> FALSE]

\* the chart of the same plotSizeX and plotSizeY in the other orientation:
\* an inverted chart has its plotHeight along the x axis of the series
Flipped(ch) ==
    [ch EXCEPT !.inverted = ~@,
               !.plotHeight = IF ch.inverted THEN ch.plotSizeY ELSE ch.plotSizeX]

\* edge lists of unit weight, default options
InitTopology ==
    /\ options \in [data : EdgeLists(Edges({1}), MaxEdges),
                    nodes : {NoNodeOptions},
                    nodePadding : {DefaultNodePadding},
                    nodeWidth : {DefaultNodeWidth},
                    curveFactor : {DefaultCurveFactor},
                    borderWidth : {DefaultBorderWidth}]
    /\ chart = DefaultChart

\* edge lists of unit weight with one node given a column or the hanging layout
InitNodeOptions ==
    /\ options \in [data : EdgeLists(Edges({1}), MaxEdges - 1),
                    nodes : OneNodeOption,
                    nodePadding : {DefaultNodePadding},
                    nodeWidth : {DefaultNodeWidth},
                    curveFactor : {DefaultCurveFactor},
                    borderWidth : {DefaultBorderWidth}]
    /\ chart = DefaultChart

\* weighted edge lists, several paddings, both orientations
InitGeometry ==
    /\ options \in [data : EdgeLists(Edges(Weights), MaxEdges - 1),
                    nodes : {NoNodeOptions},
                    nodePadding : Paddings,
                    nodeWidth : {DefaultNodeWidth},
                    curveFactor : {DefaultCurveFactor},
                    borderWidth : {DefaultBorderWidth}]
    /\ chart \in {DefaultChart, Flipped(DefaultChart)}

\* edge lists in which some weight is not a number
InitInvalid ==
    /\ options \in [data : {data \in EdgeLists(Edges({1}) \cup InvalidEdges, MaxEdges - 1) :
                               \E i \in 1..Len(data) : data[i].wtype # "number"},
                    nodes : {NoNodeOptions},
                    nodePadding : {DefaultNodePadding},
                    nodeWidth : {DefaultNodeWidth},
                    curveFactor : {DefaultCurveFactor},
                    borderWidth : {DefaultBorderWidth}]
    /\ chart = DefaultChart

Init == Fresh /\ (InitTopology \/ InitNodeOptions \/ InitGeometry \/ InitInvalid)

\* edge lists in which some weight is 0 (a number, so a valid edge)
InitZeroWeight ==
    /\ options \in [data : {data \in EdgeLists(Edges({0, 1}), MaxEdges - 1) :
                               \E i \in 1..Len(data) : data[i].weight = 0},
                    nodes : {NoNodeOptions},
                    nodePadding : Paddings,
                    nodeWidth : {DefaultNodeWidth},
                    curveFactor : {DefaultCurveFactor},
                    borderWidth : {DefaultBorderWidth}]
    /\ chart = DefaultChart

Next == Translate \/ SetData

Spec == Init /\ [][Next]_vars

\* the series built from edge lists that hold zero weights
ZeroWeightInit == Fresh /\ InitZeroWeight
SpecZeroWeight == ZeroWeightInit /\ [][Next]_vars

----------------------------------------------------------------------------
(* Vocabulary of the properties *)

Range(f) == {f[i] : i \in DOMAIN f}
NodeById(id) == nodes[IndexOfNode(nodes, id)]

\* the ids the links from id lead to, and everything reachable from a set
Successors(ps, id) == {ps[i].to : i \in {j \in 1..Len(ps) : ps[j].from = id}}
RECURSIVE ReachableFrom(_, _, _)
ReachableFrom(ps, S, n) ==
    IF n = 0 THEN S
    ELSE ReachableFrom(ps, S \cup UNION {Successors(ps, x) : x \in S}, n - 1)
OnCycle(ps, id) == id \in ReachableFrom(ps, Successors(ps, id), Len(ps))
Acyclic(ps) == \A i \in 1..Len(ps) : ~OnCycle(ps, ps[i].from)

NoOverrides == options.nodes = NoNodeOptions
AllWeightsNumeric == \A i \in 1..Len(options.data) : options.data[i].wtype = "number"

\* the columns of the source nodes of a node's incoming links
SourceColumns(node) == {NodeById(points[l].from).column : l \in Range(node.linksTo)}
MaxOf(S) == CHOOSE m \in S : \A x \in S : x <= m

----------------------------------------------------------------------------
(* C1..C5: ranks *)

\* C1: after a completed pass on an edge list without node overrides, every
\* edge whose two endpoints are not on a cycle has its target node in a
\* strictly greater column than its source node.
C1_AcyclicEdgesGoRight ==
    (status = "done" /\ NoOverrides) =>
        \A i \in 1..Len(points) :
            (~OnCycle(points, points[i].from) /\ ~OnCycle(points, points[i].to))
                => NodeById(points[i].to).column > NodeById(points[i].from).column

\* C2: after a completed pass on an acyclic edge list without node overrides,
\* a node with incoming links has column 1 + the largest column among the
\* sources of all its incoming links, and a node without incoming links has
\* column 0.
C2_ColumnIsOnePastHighestSource ==
    (status = "done" /\ NoOverrides /\ Acyclic(points)) =>
        \A k \in 1..Len(nodes) :
            IF Len(nodes[k].linksTo) = 0
            THEN nodes[k].column = 0
            ELSE nodes[k].column = 1 + MaxOf(SourceColumns(nodes[k]))

\* C3 as the specification states it: after a completed pass every root node (no incoming links)
\* has level 0 and column 0.
C3_RootsAtRankZero ==
    status = "done" =>
        \A k \in 1..Len(nodes) :
            Len(nodes[k].linksTo) = 0 => (nodes[k].level = 0 /\ nodes[k].column = 0)

\* C3 amended: after a completed pass every root node has level 0, and column
\* 0 unless its options give it an explicit column, which is then its column.
C3_RootsAtRankZeroUnlessOverridden ==
    status = "done" =>
        \A k \in 1..Len(nodes) :
            Len(nodes[k].linksTo) = 0 =>
                /\ nodes[k].level = 0
                /\ nodes[k].column = IF nodes[k].options.column # Undef
                                     THEN nodes[k].options.column
                                     ELSE 0

\* C3 witness: a completed pass with a root left to the default placement
\* and a root placed by an explicit column other than 0.
C3_Witness ==
    /\ status = "done"
    /\ \E k \in 1..Len(nodes) :
          Len(nodes[k].linksTo) = 0 /\ nodes[k].options.column = Undef /\ nodes[k].column = 0
    /\ \E k \in 1..Len(nodes) :
          Len(nodes[k].linksTo) = 0 /\ nodes[k].options.column > 0
             /\ nodes[k].column = nodes[k].options.column

\* C4: for an edge list in which every edge has a from id, a to id and a
\* numeric weight, translate completes without raising an error.
C4_TranslateNeverThrows ==
    AllWeightsNumeric => status # "threw"

\* C5: when every node has an incoming link (no root), the pass does not
\* throw, every node the root traversal never reached ends with column 0, and
\* a link whose target column is not right of its source column (B->A in
\* A->B, B->A) gets the backward path.
C5_RootlessGraphDefaultsToRankZero ==
    (status # "new" /\ Len(nodes) > 0 /\ \A k \in 1..Len(nodes) : Len(nodes[k].linksTo) > 0) =>
        /\ status = "done"
        /\ \A k \in 1..Len(nodes) : nodes[k].level = Undef => nodes[k].column = 0
        /\ \A i \in 1..Len(points) :
              NodeById(points[i].to).column <= NodeById(points[i].from).column
                  => ~points[i].straight

----------------------------------------------------------------------------
(* C6: edges whose weight is not a number *)

NumericEdges(data) == SelectSeq(data, LAMBDA e : e.wtype = "number")

----------------------------------------------------------------------------
(* C7..C10: sizes *)

AbsNum(a) == IF a.n < 0 THEN Neg(a) ELSE a

\* the sum of the rectangle heights of the nodes i, i + 1, ... of a column
RECURSIVE SumOfHeights(_, _)
SumOfHeights(column, i) ==
    IF i > Len(column) THEN I(0)
    ELSE Add(NodeById(column[i]).shapeArgs.height, SumOfHeights(column, i + 1))

\* the sum of node.sum over the nodes i, i + 1, ... of a column
RECURSIVE SumOfSums(_, _)
SumOfSums(column, i) ==
    IF i > Len(column) THEN I(0)
    ELSE Add(NodeById(column[i]).sum, SumOfSums(column, i + 1))

\* a column's extent: its rectangles and the paddings between them
ColumnExtent(column) ==
    Add(SumOfHeights(column, 1), I((Len(column) - 1) * options.nodePadding))

\* C7: after translate no column overflows the draw extent by more than the
\* rounding of its heights (half a pixel for each node of the column).
C7_NoColumnOverflows ==
    status = "done" =>
        \A c \in 1..Len(nodeColumns) :
            LessEq(ColumnExtent(nodeColumns[c]),
                   Add(I(chart.plotSizeY), Num(Len(nodeColumns[c]), 2)))

\* C7 witness: a column of several nodes whose rounded heights and paddings
\* exceed the draw extent, within the rounding.
C7_Witness ==
    /\ status = "done"
    /\ \E c \in 1..Len(nodeColumns) :
          /\ Len(nodeColumns[c]) >= 2
          /\ Greater(ColumnExtent(nodeColumns[c]), I(chart.plotSizeY))

\* the extent left to the nodes of a column
Available(column) ==
    I(chart.plotSizeY - options.borderWidth - (Len(column) - 1) * options.nodePadding)

\* C8: one scale factor for all columns, the minimum over the columns of
\* (extent left after padding) / (column weight sum): the most constrained
\* column fills the draw extent exactly, no column gets less than it needs,
\* and every node height and link height is its weight times that factor.
C8_OneScaleFillsTightestColumn ==
    (status = "done" /\ Len(nodes) > 0) =>
        /\ \E c \in 1..Len(nodeColumns) :
              /\ Greater(SumOfSums(nodeColumns[c], 1), I(0))
              /\ Add(Mul(SumOfSums(nodeColumns[c], 1), translationFactor),
                     I((Len(nodeColumns[c]) - 1) * options.nodePadding))
                    = I(chart.plotSizeY - options.borderWidth)
        /\ \A c \in 1..Len(nodeColumns) :
              Greater(SumOfSums(nodeColumns[c], 1), I(0)) =>
                  LessEq(translationFactor,
                         Div(Available(nodeColumns[c]), SumOfSums(nodeColumns[c], 1)))
        /\ \A k \in 1..Len(nodes) :
              nodes[k].shapeArgs.height = MathRound(Mul(nodes[k].sum, translationFactor))
        /\ \A i \in 1..Len(points) :
              AbsNum(points[i].linkHeight)
                  = AbsNum(Mul(I(points[i].weight), translationFactor))

\* C8 witness: columns of different room per unit of weight, one of them
\* holding several nodes, so that the minimum is a choice.
C8_Witness ==
    /\ status = "done"
    /\ \E c \in 1..Len(nodeColumns) : Len(nodeColumns[c]) >= 2
    /\ \E c \in 1..Len(nodeColumns) :
          /\ Greater(SumOfSums(nodeColumns[c], 1), I(0))
          /\ Less(translationFactor,
                  Div(Available(nodeColumns[c]), SumOfSums(nodeColumns[c], 1)))

\* total thickness of the ribbons in a link list, total weight of the list
RECURSIVE Thickness(_, _)
Thickness(links, j) ==
    IF j > Len(links) THEN I(0)
    ELSE Add(AbsNum(points[links[j]].linkHeight), Thickness(links, j + 1))
RECURSIVE TotalWeight(_, _)
TotalWeight(links, j) ==
    IF j > Len(links) THEN 0 ELSE points[links[j]].weight + TotalWeight(links, j + 1)
NodeThickness(node) == AbsNum(Mul(node.sum, translationFactor))

WeightBefore(links, j) == TotalWeight(SubSeq(links, 1, j - 1), 1)

\* the edge of a node the anchors are measured from (mirrored when inverted)
AnchorBase(node) ==
    IF chart.inverted THEN Sub(I(chart.plotSizeY), node.nodeY) ELSE node.nodeY
\* the distance from a to b in the direction the ribbons are stacked
Along(a, b) == IF chart.inverted THEN Sub(a, b) ELSE Sub(b, a)

\* C10: on its source node a link's anchor lies the scaled total weight of
\* the outgoing links stored before it away from the node's edge, on its
\* target node the scaled total weight of the incoming links stored before
\* it away from the first incoming anchor; consecutive ribbons at a node are
\* contiguous: each starts where the one before it ends.
C10_AnchorsAreCumulative ==
    status = "done" =>
        \A k \in 1..Len(nodes) :
            LET out == nodes[k].linksFrom
                in == nodes[k].linksTo
            IN /\ \A j \in 1..Len(out) :
                     /\ Along(AnchorBase(nodes[k]), points[out[j]].linkBase[1])
                           = Mul(I(WeightBefore(out, j)), translationFactor)
                     /\ j < Len(out) =>
                           points[out[j]].linkBase[2] = points[out[j + 1]].linkBase[1]
               /\ \A j \in 1..Len(in) :
                     /\ Along(points[in[1]].linkBase[3], points[in[j]].linkBase[3])
                           = Mul(I(WeightBefore(in, j)), translationFactor)
                     /\ j < Len(in) =>
                           points[in[j]].linkBase[4] = points[in[j + 1]].linkBase[3]

\* C10 witness: a node with two outgoing links of equal weight, which take
\* the two halves of its edge, and a node with several incoming links.
C10_Witness ==
    /\ status = "done"
    /\ \E k \in 1..Len(nodes) :
          LET out == nodes[k].linksFrom
          IN /\ Len(out) = 2
             /\ points[out[1]].weight = points[out[2]].weight
             /\ Along(AnchorBase(nodes[k]), points[out[2]].linkBase[1])
                   = Div(Mul(nodes[k].sum, translationFactor), I(2))
             /\ Along(AnchorBase(nodes[k]), points[out[2]].linkBase[2])
                   = Mul(nodes[k].sum, translationFactor)
    /\ \E k \in 1..Len(nodes) : Len(nodes[k].linksTo) >= 2

----------------------------------------------------------------------------
(* C11: a layout of one column *)

\* a number that is neither NaN nor infinite
Finite(a) == a.d # 0

\* C11: when the layout has exactly one column, colDistance is finite and
\* every node's x position and rectangle are finite numbers.
C11_SingleColumnSpacingIsFinite ==
    (status = "done" /\ Len(nodeColumns) = 1) =>
        /\ Finite(colDistance)
        /\ \A k \in 1..Len(nodes) :
              /\ Finite(nodes[k].nodeX)
              /\ Finite(nodes[k].shapeArgs.x)
              /\ Finite(nodes[k].shapeArgs.y)
              /\ Finite(nodes[k].shapeArgs.width)
              /\ Finite(nodes[k].shapeArgs.height)

----------------------------------------------------------------------------
(* C12: columns of total weight 0 *)

\* the columns of positive total weight
PositiveColumns ==
    SelectSeq(nodeColumns, LAMBDA column : ColumnSum(column, nodes, points, 1) > 0)

\* C12: a column of total weight 0 never constrains the scale:
\* translationFactor is the minimum of the ratios of the columns of positive
\* total weight (Infinity when there is none).
C12_ZeroWeightColumnsDoNotConstrain ==
    status = "done" =>
        translationFactor
            = TranslationFactor(PositiveColumns, nodes, points, options, chart, 1, Infinity)

----------------------------------------------------------------------------
(* C13: the array of columns *)

\* the number of times id occurs in a column
Occurrences(column, id) == Cardinality({i \in 1..Len(column) : column[i] = id})

\* C13: the array of columns holds a column at every index from 0 to the
\* largest assigned column and no further, every node is once in the column
\* at index node.column and in no other, and the columns hold only nodes.
C13_ColumnsIndexedByRank ==
    status = "done" =>
        /\ \A k \in 1..Len(nodes) :
              /\ nodes[k].column >= 0
              /\ nodes[k].column + 1 <= Len(nodeColumns)
              /\ \A c \in 1..Len(nodeColumns) :
                    Occurrences(nodeColumns[c], nodes[k].id)
                        = IF c = nodes[k].column + 1 THEN 1 ELSE 0
        /\ \A c \in 1..Len(nodeColumns) :
              \A i \in 1..Len(nodeColumns[c]) : IndexOfNode(nodes, nodeColumns[c][i]) # 0
        /\ Len(nodeColumns) =
              IF Len(nodes) = 0 THEN 0
              ELSE 1 + MaxOf({nodes[k].column : k \in 1..Len(nodes)})

\* C13 witness: a rank without nodes, skipped through an explicit column,
\* keeps an empty column while a later column holds a node.
C13_Witness ==
    /\ status = "done"
    /\ \E c \in 1..Len(nodeColumns) :
          /\ nodeColumns[c] = <<>>
          /\ \E e \in (c + 1)..Len(nodeColumns) : nodeColumns[e] # <<>>
    /\ \E k \in 1..Len(nodes) :
          /\ nodes[k].options.column = Undef
          /\ nodes[k].column = 0
          /\ k > 1

----------------------------------------------------------------------------
(* C14, C15: the path of a link, the two orientations *)

\* the path of a point is the forward ribbon of two Bezier curves
IsForwardRibbon(point) == point.straight /\ Len(point.d) = 18
\* the path of a point is the routed path around the nodes
IsBackwardPath(point) == ~point.straight /\ Len(point.d) = 64

\* C14: a link gets the forward ribbon exactly when its target node's column
\* is greater than its source node's column, and the backward routed path
\* exactly when the target column is less than or equal to the source column.
C14_PathFollowsColumns ==
    status = "done" =>
        \A i \in 1..Len(points) :
            IF NodeById(points[i].to).column > NodeById(points[i].from).column
            THEN IsForwardRibbon(points[i])
            ELSE IsBackwardPath(points[i])

\* the rectangle of node b is the rectangle of node a reflected about the
\* plot area on both axes
MirroredNode(a, b) ==
    /\ b.shapeArgs.width = a.shapeArgs.width
    /\ b.shapeArgs.height = a.shapeArgs.height
    /\ b.shapeArgs.x = Sub(Sub(I(chart.plotSizeX), a.shapeArgs.x), a.shapeArgs.width)
    /\ b.shapeArgs.y = Sub(Sub(I(chart.plotSizeY), a.shapeArgs.y), a.shapeArgs.height)

\* the offset of the first control point of a forward ribbon from its start,
\* and the offset of the outer bend of a backward path from its start
CurveOffset(point) == Sub(point.d[3], point.d[1])
BendOffset(point) == Sub(point.d[57], point.d[1])

\* thickness, node width and curve offset of link q are those of link p with
\* the sign flipped
MirroredLink(p, q) ==
    /\ q.linkHeight = Neg(p.linkHeight)
    /\ q.nodeW = Neg(p.nodeW)
    /\ q.curvy = Neg(p.curvy)
    /\ (p.straight /\ q.straight) => CurveOffset(q) = Neg(CurveOffset(p))

\* C15: the layout of the same edge list, options and plot size in the other
\* orientation is the mirror image: every node's rectangle is reflected about
\* the plot area on both axes with equal width and height, and every link's
\* thickness, node width, curve offset and bend offset have the same
\* magnitude with the sign flipped.
C15_InvertedIsMirrorImage ==
    status = "done" =>
        \E r \in Pass(<<>>, <<>>, options, Flipped(chart)) :
            /\ ~r.threw
            /\ \A k \in 1..Len(nodes) : MirroredNode(nodes[k], NodeOf(r.nodes, nodes[k].id))
            /\ \A i \in 1..Len(points) :
                  /\ MirroredLink(points[i], r.points[i])
                  /\ (~points[i].straight /\ ~r.points[i].straight) =>
                        BendOffset(r.points[i]) = Neg(BendOffset(points[i]))

----------------------------------------------------------------------------
(* C16: translate run again *)

----------------------------------------------------------------------------
(* C17: the recursive leveling *)

\* the nodes a walk along the links from the roots reaches
ReachedFromRoots ==
    ReachableFrom(points, {nodes[k].id : k \in {j \in 1..Len(nodes) : Len(nodes[j].linksTo) = 0}},
                  Len(points))

\* C17: the leveling of a pass ends, on every edge list: each node's level is
\* assigned at most once in a pass (so it is never changed after its first
\* assignment), exactly the nodes reached from a root are given one, and a
\* level is less than the number of nodes.
C17_LevelSetOncePerPass ==
    status # "new" =>
        \A k \in 1..Len(nodes) :
            /\ nodes[k].ordered <= 1
            /\ nodes[k].ordered = 1 <=> nodes[k].level # Undef
            /\ nodes[k].level # Undef <=> nodes[k].id \in ReachedFromRoots
            /\ nodes[k].level < Len(nodes)

\* C17 witness: a pass over a cycle reached from a root: a link of the cycle
\* leads the walk back to a node that has its level already.
C17_Witness ==
    /\ status = "done"
    /\ \E i \in 1..Len(points) :
          /\ points[i].from # points[i].to
          /\ OnCycle(points, points[i].from)
          /\ NodeById(points[i].from).ordered = 1
          /\ NodeById(points[i].to).level < NodeById(points[i].from).level
    /\ \E k \in 1..Len(nodes) : Len(nodes[k].linksTo) = 0

----------------------------------------------------------------------------
(* C18: the node registry *)

\* the ids the edges of a list mention
MentionedIds(data) == {data[i].from : i \in 1..Len(data)} \cup {data[i].to : i \in 1..Len(data)}

\* a sequence without repeated entries
NoRepeats(q) == \A i, j \in 1..Len(q) : q[i] = q[j] => i = j

\* C18: after setData and translate in any sequence, the points are the
\* numeric edges of the current data, the node list holds one node for each
\* id a current edge mentions and no other, and each node's linksFrom and
\* linksTo hold exactly the current edges leaving and entering it, each once.
C18_RegistryReflectsCurrentData ==
    status # "new" =>
        LET valid == NumericEdges(options.data)
        IN /\ Len(points) = Len(valid)
           /\ \A i \in 1..Len(valid) :
                 /\ points[i].from = valid[i].from
                 /\ points[i].to = valid[i].to
                 /\ points[i].weight = valid[i].weight
           /\ {nodes[k].id : k \in 1..Len(nodes)} = MentionedIds(valid)
           /\ \A k, l \in 1..Len(nodes) : nodes[k].id = nodes[l].id => k = l
           /\ \A k \in 1..Len(nodes) :
                 /\ NoRepeats(nodes[k].linksFrom)
                 /\ NoRepeats(nodes[k].linksTo)
                 /\ Range(nodes[k].linksFrom)
                       = {i \in 1..Len(points) : points[i].from = nodes[k].id}
                 /\ Range(nodes[k].linksTo)
                       = {i \in 1..Len(points) : points[i].to = nodes[k].id}

\* C18 witness: a translated series whose data setData has replaced by a
\* list that mentions D and not B, which no initial edge list does.
C18_Witness ==
    /\ status = "done"
    /\ IndexOfNode(nodes, "D") # 0
    /\ IndexOfNode(nodes, "B") = 0
    /\ Len(NodeById("D").linksFrom) = 1
    /\ Len(NodeById("A").linksTo) = 1

----------------------------------------------------------------------------
(* C19, C20: the stack of a column *)

NoOffsets == \A id \in Ids : options.nodes[id].offset = NoOffset

\* column.top and column.offset(node).relativeTop of the last pass, and the
\* extent of the i-th node of a column before rounding
TopOf(column) ==
    ColumnTop(column, nodes, points, translationFactor, options.nodePadding, chart.plotSizeY)
RelativeTopOf(column, i) ==
    ColumnOffset(column, nodes, points, column[i], translationFactor,
                 options.nodePadding, 1, I(0))
ExtentOf(column, i) == Mul(NodeById(column[i]).sum, translationFactor)

\* C19: with no offset given to a node, the nodes of a column are stacked in
\* stored order from column.top on, nodePadding apart, and the stack is
\* centered: the space above the first node equals the space below the last.
C19_StackIsPaddedAndCentered ==
    (status = "done" /\ NoOffsets) =>
        \A c \in 1..Len(nodeColumns) :
            LET column == nodeColumns[c]
                last == Len(column)
            IN last > 0 =>
                  /\ RelativeTopOf(column, 1) = I(0)
                  /\ \A i \in 1..last :
                        NodeById(column[i]).nodeY
                            = MathFloor(Add(TopOf(column), RelativeTopOf(column, i)))
                  /\ \A i \in 1..(last - 1) :
                        Sub(RelativeTopOf(column, i + 1),
                            Add(RelativeTopOf(column, i), ExtentOf(column, i)))
                            = I(options.nodePadding)
                  /\ TopOf(column)
                        = Sub(I(chart.plotSizeY),
                              Add(TopOf(column),
                                  Add(RelativeTopOf(column, last), ExtentOf(column, last))))

\* the rectangle of a node along the axis its column is stacked on: the
\* first and the last pixel row it covers
RectTop(node) == node.shapeArgs.y
RectEnd(node) == Add(node.shapeArgs.y, node.shapeArgs.height)

\* C20: no two nodes of a column have overlapping rectangles: of two nodes
\* of a column, one ends at or before the top of the other.
C20_NoOverlapInColumn ==
    status = "done" =>
        \A c \in 1..Len(nodeColumns) :
            \A i, j \in 1..Len(nodeColumns[c]) :
                i < j =>
                    LET a == NodeById(nodeColumns[c][i])
                        b == NodeById(nodeColumns[c][j])
                    IN IF chart.inverted
                       THEN LessEq(RectEnd(b), RectTop(a))
                       ELSE LessEq(RectEnd(a), RectTop(b))

====
